---- MODULE Spec2Model ----
(***************************************************************************)
(* PluralLib: validated value types (LimitedStr, LimitedUrl, ShortId,      *)
(* ProxyTag) and the patch model (Patchable, MemberPatch,                  *)
(* MemberPrivacyPatch) with its serde serialization.                       *)
(*                                                                         *)
(* Every operation of the library is a pure function of its inputs, so a   *)
(* behaviour is one call: Init draws the operation and its inputs, the     *)
(* operation's action computes the result, and (where the library offers   *)
(* one) a rendering action reads the constructed value back as text.       *)
(*                                                                         *)
(* A Rust str is modelled as the sequence of its chars, each char being    *)
(* its Unicode code point; str::len() is the length of the UTF-8 encoding. *)
(* Option<T> is <<>> (None) or <<v>> (Some(v)); Result is <<"Ok", v>> or   *)
(* <<"Err", e>>; an unwinding panic is <<"Panic", message>>.               *)
(***************************************************************************)
EXTENDS Integers, Sequences, FiniteSets, TLC

VARIABLES call, ret, text

vars == <<call, ret, text>>

\* ---------------------------------------------------------------- values

None == <<>>
Some(v) == <<v>>
Ok(v) == <<"Ok", v>>
Err(e) == <<"Err", e>>
Panic(m) == <<"Panic", m>>
IsOk(r) == r[1] = "Ok"
IsErr(r) == r[1] = "Err"
IsPanic(r) == r[1] = "Panic"

\* No result yet: the call has not run.
Pending == <<"Pending">>
\* No text read back yet.
NoText == <<"NoText">>

\* ---------------------------------------------------------------- bounds

\* Longest generated string, in chars, for LimitedStr inputs.
MaxStrChars == 4
\* Largest const parameter L tried for LimitedStr<L>.
MaxStrLimit == 6
\* Longest generated string, in chars, for ShortId inputs.
MaxShortChars == 6
\* How far around 0, half the limit and the limit ProxyTag fragment lengths go.
MaxSlack == 2
\* Largest const parameter L tried for LimitedUrl<L>.
MaxUrlLimit == 16
\* Longest generated text, in chars, for the color field.
MaxHexChars == 8

\* ---------------------------------------------------------------- strings

\* All strings of at most n chars over the alphabet A.
StringsUpTo(A, n) == UNION {[1..k -> A] : k \in 0..n}

\* Number of bytes char c takes in UTF-8 (char::len_utf8).
len_utf8(c) ==
    IF c < 128 THEN 1 ELSE IF c < 2048 THEN 2 ELSE IF c < 65536 THEN 3 ELSE 4

\* str::len(): the length of the string in bytes.
RECURSIVE str_len(_)
str_len(s) == IF s = <<>> THEN 0 ELSE len_utf8(Head(s)) + str_len(Tail(s))

\* char::is_ascii_lowercase: 'a'..='z'.
is_ascii_lowercase(c) == 97 <= c /\ c <= 122

\* ---------------------------------------------------------------- LimitedStr

\* "hello" and "hello!"
StrHello == <<104, 101, 108, 108, 111>>
StrHelloBang == <<104, 101, 108, 108, 111, 33>>

\* Inputs: 'a', '!' and the two-byte U+00E9.
LimitedStrInputs == StringsUpTo({97, 33, 233}, MaxStrChars) \cup {StrHello, StrHelloBang}
LimitedStrLimits == 0..MaxStrLimit

\* The mutant compares with >= : a string of exactly L bytes is refused.
LimitedStr_try_from_ge(L, value) ==
    IF str_len(value) >= L THEN Err(<<"ExceededLimitError", value, L>>)
    ELSE Ok(value)

\* impl TryFrom<&str> for LimitedStr<L>
LimitedStr_try_from(L, value) ==
    IF str_len(value) > L THEN Err(<<"ExceededLimitError", value, L>>)
    ELSE Ok(value)

\* impl Deref for LimitedStr<L>: the boxed str itself.
LimitedStr_deref(self) == self

LimitedStrInit ==
    /\ call \in {<<"LimitedStr::try_from", L, s>> : L \in LimitedStrLimits, s \in LimitedStrInputs}
    /\ ret = Pending
    /\ text = NoText

LimitedStrTryFrom ==
    /\ call[1] = "LimitedStr::try_from"
    /\ ret = Pending
    /\ ret' = LimitedStr_try_from(call[2], call[3])
    /\ UNCHANGED <<call, text>>

LimitedStrDeref ==
    /\ call[1] = "LimitedStr::try_from"
    /\ IsOk(ret)
    /\ text = NoText
    /\ text' = <<"Text", LimitedStr_deref(ret[2])>>
    /\ UNCHANGED <<call, ret>>

\* ---------------------------------------------------------------- ShortId

\* "ptckn", "Ptckn", "ptck"
StrPtckn == <<112, 116, 99, 107, 110>>
StrPtcknUpper == <<80, 116, 99, 107, 110>>
StrPtck == <<112, 116, 99, 107>>

\* Inputs: 'a', 'z', 'P' and the two-byte U+00E9.
ShortIdInputs ==
    StringsUpTo({97, 122, 80, 233}, MaxShortChars) \cup {StrPtckn, StrPtcknUpper, StrPtck}

\* The mutant lost the negation of the character test.
ShortId_try_from_inverted(value) ==
    IF str_len(value) # 5 THEN Err("IncorrectLength")
    ELSE IF \E i \in 1..Len(value) : is_ascii_lowercase(value[i])
         THEN Err("InvalidCharacters")
         ELSE Ok(value)

\* impl TryFrom<&str> for ShortId
ShortId_try_from(value) ==
    IF str_len(value) # 5 THEN Err("IncorrectLength")
    ELSE IF \E i \in 1..Len(value) : ~is_ascii_lowercase(value[i])
         THEN Err("InvalidCharacters")
         ELSE Ok(value)

\* impl ToString for ShortId: a fresh String with the chars of the boxed str.
ShortId_to_string(self) == [i \in 1..Len(self) |-> self[i]]

ShortIdInit ==
    /\ call \in {<<"ShortId::try_from", s>> : s \in ShortIdInputs}
    /\ ret = Pending
    /\ text = NoText

ShortIdTryFrom ==
    /\ call[1] = "ShortId::try_from"
    /\ ret = Pending
    /\ ret' = ShortId_try_from(call[2])
    /\ UNCHANGED <<call, text>>

ShortIdToString ==
    /\ call[1] = "ShortId::try_from"
    /\ IsOk(ret)
    /\ text = NoText
    /\ text' = <<"Text", ShortId_to_string(ret[2])>>
    /\ UNCHANGED <<call, ret>>

\* ---------------------------------------------------------------- ProxyTag

PROXY_TAG_SIZE_LIMIT == 100

\* The string of n chars c.
Repeat(c, n) == [i \in 1..n |-> c]

\* Fragment lengths: within MaxSlack of 0, of half the limit and of the limit.
ProxyTagLens ==
    {n \in 0..(PROXY_TAG_SIZE_LIMIT + MaxSlack) :
        \E base \in {0, PROXY_TAG_SIZE_LIMIT \div 2, PROXY_TAG_SIZE_LIMIT} :
            base - MaxSlack <= n /\ n <= base + MaxSlack}

\* Option<S> inputs: None, or a run of 'a' (one byte) or of U+00E9 (two bytes).
ProxyTagFragments ==
    {None} \cup {Some(Repeat(c, n)) : c \in {97, 233}, n \in ProxyTagLens}

\* The closure `validate` of ProxyTag::new: `length` is the captured counter,
\* returned with the closure's result.
ProxyTag_validate(length, parameter) ==
    IF parameter = None
    THEN [length |-> length, out |-> Ok(None)]
    ELSE LET string == parameter[1]
             grown == length + str_len(string)
         IN  IF grown > PROXY_TAG_SIZE_LIMIT
             THEN [length |-> grown, out |-> Err("ProxyTagExceededLimitError")]
             ELSE [length |-> grown, out |-> Ok(Some(string))]

\* The mutant checks each fragment against the limit on its own.
ProxyTag_new_each(prefix, suffix) ==
    LET p == ProxyTag_validate(0, prefix)
        s == ProxyTag_validate(0, suffix)
    IN  IF IsErr(p.out) THEN p.out
        ELSE IF IsErr(s.out) THEN s.out
        ELSE Ok([prefix |-> p.out[2], suffix |-> s.out[2]])

\* ProxyTag::new: the struct literal validates prefix, then suffix, with `?`.
ProxyTag_new(prefix, suffix) ==
    LET p == ProxyTag_validate(0, prefix)
        s == ProxyTag_validate(p.length, suffix)
    IN  IF IsErr(p.out) THEN p.out
        ELSE IF IsErr(s.out) THEN s.out
        ELSE Ok([prefix |-> p.out[2], suffix |-> s.out[2]])

ProxyTagInit ==
    /\ call \in {<<"ProxyTag::new", p, s>> : p \in ProxyTagFragments, s \in ProxyTagFragments}
    /\ ret = Pending
    /\ text = NoText

ProxyTagNew ==
    /\ call[1] = "ProxyTag::new"
    /\ ret = Pending
    /\ ret' = ProxyTag_new(call[2], call[3])
    /\ UNCHANGED <<call, text>>

\* ---------------------------------------------------------------- Url

\* The UTF-8 encoding of char c, as bytes.
encode_utf8(c) ==
    IF c < 128 THEN <<c>>
    ELSE IF c < 2048 THEN <<192 + (c \div 64), 128 + (c % 64)>>
    ELSE IF c < 65536
         THEN <<224 + (c \div 4096), 128 + ((c \div 64) % 64), 128 + (c % 64)>>
         ELSE <<240 + (c \div 262144), 128 + ((c \div 4096) % 64),
                128 + ((c \div 64) % 64), 128 + (c % 64)>>

\* The upper-case hexadecimal digit of d, as used by percent-encoding.
hex_upper(d) == IF d < 10 THEN 48 + d ELSE 55 + d

RECURSIVE percent_encode_bytes(_)
percent_encode_bytes(bytes) ==
    IF bytes = <<>> THEN <<>>
    ELSE <<37, hex_upper(Head(bytes) \div 16), hex_upper(Head(bytes) % 16)>>
             \o percent_encode_bytes(Tail(bytes))

\* The path percent-encode set: C0 controls, space, " < > ` { } # ? and
\* everything above '~'.
in_path_encode_set(c) == c <= 32 \/ c >= 127 \/ c \in {34, 35, 60, 62, 63, 96, 123, 125}

RECURSIVE percent_encode_path(_)
percent_encode_path(s) ==
    IF s = <<>> THEN <<>>
    ELSE (IF in_path_encode_set(Head(s))
          THEN percent_encode_bytes(encode_utf8(Head(s)))
          ELSE <<Head(s)>>) \o percent_encode_path(Tail(s))

is_ascii_alphabetic(c) == (65 <= c /\ c <= 90) \/ (97 <= c /\ c <= 122)
is_ascii_digit(c) == 48 <= c /\ c <= 57
to_ascii_lowercase(c) == IF 65 <= c /\ c <= 90 THEN c + 32 ELSE c
str_to_ascii_lowercase(s) == [i \in 1..Len(s) |-> to_ascii_lowercase(s[i])]

\* Leading and trailing C0 controls and spaces are dropped from the input.
url_trim(s) ==
    LET keep == {i \in 1..Len(s) : s[i] > 32}
    IN  IF keep = {} THEN <<>>
        ELSE SubSeq(s, CHOOSE i \in keep : \A j \in keep : i <= j,
                       CHOOSE i \in keep : \A j \in keep : i >= j)

\* The first index of s whose char is no scheme character (ASCII
\* alphanumeric, '+', '-', '.'), or Len(s) + 1.
scheme_end(s) ==
    LET stops == {i \in 1..Len(s) :
                     ~(is_ascii_alphabetic(s[i]) \/ is_ascii_digit(s[i])
                       \/ s[i] \in {43, 45, 46})}
    IN  IF stops = {} THEN Len(s) + 1 ELSE CHOOSE i \in stops : \A j \in stops : i <= j

\* The number of leading '/' and '\' of s.
count_slashes(s) ==
    LET others == {i \in 1..Len(s) : s[i] \notin {47, 92}}
    IN  IF others = {} THEN Len(s) ELSE (CHOOSE i \in others : \A j \in others : i <= j) - 1

\* The length of the host at the head of s: up to the first of / \ ? # :
host_len(s) ==
    LET stops == {i \in 1..Len(s) : s[i] \in {47, 92, 63, 35, 58}}
    IN  IF stops = {} THEN Len(s) ELSE (CHOOSE i \in stops : \A j \in stops : i <= j) - 1

\* "http", "https", "ws", "wss", "ftp": the special schemes other than file.
SpecialNotFile ==
    { <<104, 116, 116, 112>>, <<104, 116, 116, 112, 115>>, <<119, 115>>,
      <<119, 115, 115>>, <<102, 116, 112>> }

\* Url::parse(input) without a base, for the inputs of UrlTexts: a special
\* scheme other than file, a host of ASCII letters and dots, and a path with
\* no dot segment, query or fragment; no userinfo, port, backslash, tab or
\* newline.  The value of a Url is its serialization (Url::as_str).
Url_parse(input) ==
    LET s == url_trim(input)
        e == scheme_end(s)
    IN  IF s = <<>> \/ ~is_ascii_alphabetic(s[1]) \/ e > Len(s) \/ s[e] # 58
        THEN Err("RelativeUrlWithoutBase")
        ELSE LET scheme == str_to_ascii_lowercase(SubSeq(s, 1, e - 1))
                 after == SubSeq(s, e + 1, Len(s))
                 rest == SubSeq(after, count_slashes(after) + 1, Len(after))
                 h == host_len(rest)
                 host == str_to_ascii_lowercase(SubSeq(rest, 1, h))
                 path == SubSeq(rest, h + 1, Len(rest))
             IN  CASE scheme \in SpecialNotFile ->
                     IF host = <<>> THEN Err("EmptyHost")
                     ELSE Ok(scheme \o <<58, 47, 47>> \o host
                             \o (IF path = <<>> THEN <<47>> ELSE percent_encode_path(path)))

\* Raw texts: [' '] ("http" | "HTTP") ':' ("//" | "/") host path, and texts
\* that are no URL.
UrlTexts ==
    { lead \o scheme \o <<58>> \o slashes \o host \o path :
        lead \in {<<>>, <<32>>},
        scheme \in {<<104, 116, 116, 112>>, <<72, 84, 84, 80>>},
        slashes \in {<<47, 47>>, <<47>>},
        host \in {<<97>>, <<65, 46, 98>>},
        path \in {<<>>, <<47>>, <<47, 98>>, <<47, 98, 32, 99>>, <<47, 233>>, <<47, 98, 32>>} }
    \cup { <<>>, <<97>>, <<47, 97>>, <<58>>, <<104, 116, 116, 112>>,
           <<104, 116, 116, 112, 58, 47, 47>>, <<97, 32, 98, 32, 99, 32, 100, 32, 101, 32, 102>> }

\* The Url values a caller can hold: the results of Url::parse.
Urls == {Url_parse(s)[2] : s \in {t \in UrlTexts : IsOk(Url_parse(t))}}

\* ---------------------------------------------------------------- LimitedUrl

LimitedUrlLimits == 0..MaxUrlLimit

\* The mutant parses first and checks the length second.
LimitedUrl_try_from_parse_first(L, value) ==
    LET parsed == Url_parse(value)
    IN  IF IsErr(parsed) THEN Err(<<"ParseError", parsed[2]>>)
        ELSE IF str_len(value) > L THEN Err(<<"ExceededLimitError", value, L>>)
        ELSE Ok(parsed[2])

\* impl TryFrom<&str> for LimitedUrl<L>
LimitedUrl_try_from(L, value) ==
    IF str_len(value) > L THEN Err(<<"ExceededLimitError", value, L>>)
    ELSE LET parsed == Url_parse(value)
         IN  IF IsErr(parsed) THEN Err(<<"ParseError", parsed[2]>>)
             ELSE Ok(parsed[2])

\* impl From<Url> for LimitedUrl<L>
LimitedUrl_from(L, value) == value

\* LimitedUrl::new_unchecked
LimitedUrl_new_unchecked(L, url) == url

\* <&str as Deserialize>: a str borrowed from the input.  `lends` tells whether
\* the deserializer can lend the string out of its input (serde_json::from_str
\* on a string written without escapes); one that cannot (a string written
\* with an escape, serde_json::from_reader, a serde_json::Value) visits an
\* owned or transient string, which &str refuses as an invalid type, as it
\* refuses every value that is no string.
borrowed_str_deserialize(json, lends) ==
    IF json[1] = "str" /\ lends THEN Ok(json[2]) ELSE Err(<<"invalid type", json[1]>>)

\* #[serde(try_from = "&str")]: a borrowed string is deserialized and handed to
\* try_from, whose error becomes a custom deserialization error.
LimitedUrl_deserialize(L, json, lends) ==
    LET str == borrowed_str_deserialize(json, lends)
    IN  IF IsErr(str) THEN str
    ELSE LET r == LimitedUrl_try_from(L, str[2])
         IN  IF IsErr(r) THEN Err(<<"custom", r[2]>>) ELSE r

LimitedUrlInit ==
    /\ \/ call \in {<<"LimitedUrl::try_from", L, s>> : L \in LimitedUrlLimits, s \in UrlTexts}
       \/ call \in {<<"LimitedUrl::from", L, u>> : L \in LimitedUrlLimits, u \in Urls}
       \/ call \in {<<"LimitedUrl::new_unchecked", L, u>> : L \in LimitedUrlLimits, u \in Urls}
       \/ call \in {<<"LimitedUrl::deserialize", L, <<"str", s>>, lends>> :
                        L \in LimitedUrlLimits, s \in UrlTexts, lends \in BOOLEAN}
       \/ call \in {<<"LimitedUrl::deserialize", L, j, lends>> :
                        L \in LimitedUrlLimits, j \in {<<"null">>, <<"bool", TRUE>>},
                        lends \in BOOLEAN}
    /\ ret = Pending
    /\ text = NoText

LimitedUrlTryFrom ==
    /\ call[1] = "LimitedUrl::try_from"
    /\ ret = Pending
    /\ ret' = LimitedUrl_try_from(call[2], call[3])
    /\ UNCHANGED <<call, text>>

LimitedUrlFrom ==
    /\ call[1] = "LimitedUrl::from"
    /\ ret = Pending
    /\ ret' = Ok(LimitedUrl_from(call[2], call[3]))
    /\ UNCHANGED <<call, text>>

LimitedUrlNewUnchecked ==
    /\ call[1] = "LimitedUrl::new_unchecked"
    /\ ret = Pending
    /\ ret' = Ok(LimitedUrl_new_unchecked(call[2], call[3]))
    /\ UNCHANGED <<call, text>>

LimitedUrlDeserialize ==
    /\ call[1] = "LimitedUrl::deserialize"
    /\ ret = Pending
    /\ ret' = LimitedUrl_deserialize(call[2], call[3], call[4])
    /\ UNCHANGED <<call, text>>

\* ---------------------------------------------------------------- JSON values

\* What a serializer emits and a deserializer reads: null, a boolean, a string
\* (chars as code points), an array, or an object as the sequence of its
\* <<key, value>> entries in the order they were written.
JNull == <<"null">>
JBool(b) == <<"bool", b>>
JStr(s) == <<"str", s>>
JArr(items) == <<"arr", items>>
JObj(entries) == <<"obj", entries>>

HasKey(obj, key) == \E i \in 1..Len(obj[2]) : obj[2][i][1] = key
JGet(obj, key) == obj[2][CHOOSE i \in 1..Len(obj[2]) : obj[2][i][1] = key][2]

\* One field of a derived struct serializer: nothing when skip_serializing_if
\* holds, else the key with the result of the field's serializer.
Field(key, skip, result) == IF skip THEN <<>> ELSE << <<key, result>> >>

\* SerializeStruct: the first failing field fails the struct; otherwise the
\* object of the fields written.
Struct_serialize(fields) ==
    LET failed == {i \in 1..Len(fields) : ~IsOk(fields[i][2])}
    IN  IF failed # {}
        THEN fields[CHOOSE i \in failed : \A j \in failed : i <= j][2]
        ELSE Ok(JObj([i \in 1..Len(fields) |-> <<fields[i][1], fields[i][2][2]>>]))

\* ---------------------------------------------------------------- Privacy, Patchable

\* "Public", "Private", "Unmodified"
StrPublic == <<80, 117, 98, 108, 105, 99>>
StrPrivate == <<80, 114, 105, 118, 97, 116, 101>>
StrUnmodified == <<85, 110, 109, 111, 100, 105, 102, 105, 101, 100>>

\* enum Privacy, derived Serialize: a unit variant is written as its name.
Privacy_serialize(privacy) ==
    CASE privacy = "Public" -> Ok(JStr(StrPublic))
      [] privacy = "Private" -> Ok(JStr(StrPrivate))

Unmodified == <<"Unmodified">>
Patched(v) == <<"Patched", v>>

\* The mutant never reports a field as unmodified.
is_unmodified_never(self) == FALSE

\* Patchable::is_unmodified
is_unmodified(self) ==
    CASE self[1] = "Patched" -> FALSE
      [] self[1] = "Unmodified" -> TRUE

\* enum Patchable<T>, derived Serialize (externally tagged): Patched(v) is the
\* newtype variant {"Patched": v}, Unmodified the unit variant "Unmodified".
\* `inner` is the result of T's serializer on v.
Patchable_serialize(self, inner) ==
    IF self[1] = "Patched"
    THEN IF IsOk(inner) THEN Ok(JObj(<< <<"Patched", inner[2]>> >>)) ELSE inner
    ELSE Ok(JStr(StrUnmodified))

\* Option<T>, Serialize: None is null, Some(v) is v as T writes it.
Option_serialize(self, inner) == IF self = None THEN Ok(JNull) ELSE inner

\* LimitedStr, derived Serialize on a newtype struct: the str.
LimitedStr_serialize(self) == Ok(JStr(self))
\* LimitedUrl, derived Serialize on a newtype struct: the Url, as its text.
LimitedUrl_serialize(self) == Ok(JStr(self))
bool_serialize(b) == Ok(JBool(b))

\* ---------------------------------------------------------------- color

\* The lower-case hexadecimal digit of d (hex::encode).
hex_lower(d) == IF d < 10 THEN 48 + d ELSE 87 + d

\* hex::encode
RECURSIVE hex_encode(_)
hex_encode(bytes) ==
    IF bytes = <<>> THEN <<>>
    ELSE <<hex_lower(Head(bytes) \div 16), hex_lower(Head(bytes) % 16)>>
             \o hex_encode(Tail(bytes))

\* The value of hexadecimal digit c, or -1 (hex's `val`).
hex_val(c) ==
    IF 48 <= c /\ c <= 57 THEN c - 48
    ELSE IF 97 <= c /\ c <= 102 THEN c - 87
    ELSE IF 65 <= c /\ c <= 70 THEN c - 55
    ELSE -1

\* str::as_bytes: the UTF-8 encoding of the whole string.
RECURSIVE as_bytes(_)
as_bytes(s) == IF s = <<>> THEN <<>> ELSE encode_utf8(Head(s)) \o as_bytes(Tail(s))

\* hex::decode: an odd length is refused first, then the first character that
\* is no hexadecimal digit (with its 0-based index); else one byte per pair.
hex_decode(hex) ==
    LET bytes == as_bytes(hex)
        bad == {i \in 1..Len(bytes) : hex_val(bytes[i]) < 0}
    IN  IF Len(bytes) % 2 # 0 THEN Err(<<"OddLength">>)
        ELSE IF bad # {}
             THEN LET i == CHOOSE i \in bad : \A j \in bad : i <= j
                  IN  Err(<<"InvalidHexCharacter", bytes[i], i - 1>>)
             ELSE Ok([k \in 1..(Len(bytes) \div 2) |->
                         hex_val(bytes[2 * k - 1]) * 16 + hex_val(bytes[2 * k])])

\* color::serialize
color_serialize(color) ==
    IF color = None THEN Ok(JNull) ELSE Ok(JStr(hex_encode(color[1])))

\* color::deserialize.  Option::<&str> reads null as None and anything else as
\* a borrowed str.  RGB8::new(values[0], values[1], values[2]) indexes the
\* decoded Vec: an index past its end panics.
color_deserialize(json, lends) ==
    IF json = JNull THEN Ok(None)
    ELSE LET hex == borrowed_str_deserialize(json, lends)
             values == hex_decode(hex[2])
         IN  IF IsErr(hex) THEN hex
             ELSE IF IsErr(values) THEN Err(<<"custom", values[2]>>)
             ELSE IF Len(values[2]) < 3 THEN Panic("index out of bounds")
             ELSE Ok(Some(<<values[2][1], values[2][2], values[2][3]>>))

UnmodifiedMessage == "unmodified patchable should not be serialized"

\* patchable_color::serialize
patchable_color_serialize(color) ==
    CASE color[1] = "Patched" -> color_serialize(color[2])
      [] color[1] = "Unmodified" -> Err(<<"custom", UnmodifiedMessage>>)

\* ---------------------------------------------------------------- date and time

\* The decimal digits of n, zero-padded to `width` digits.
RECURSIVE pad_zero(_, _)
pad_zero(n, width) ==
    IF width = 0 THEN <<>> ELSE pad_zero(n \div 10, width - 1) \o <<48 + (n % 10)>>

\* time::serde::iso8601, Some(datetime): the ISO 8601 text with a signed
\* six-digit year, nine decimals of the second, and the offset as "Z" for UTC
\* or as +hh:mm / -hh:mm.
iso8601_format(dt) ==
    <<IF dt.year < 0 THEN 45 ELSE 43>>
        \o pad_zero(IF dt.year < 0 THEN -dt.year ELSE dt.year, 6)
        \o <<45>> \o pad_zero(dt.month, 2) \o <<45>> \o pad_zero(dt.day, 2)
        \o <<84>> \o pad_zero(dt.hour, 2) \o <<58>> \o pad_zero(dt.minute, 2)
        \o <<58>> \o pad_zero(dt.second, 2) \o <<46>> \o pad_zero(dt.nanosecond, 9)
        \o (IF dt.offset_hours = 0 /\ dt.offset_minutes = 0
            THEN <<90>>
            ELSE <<IF dt.offset_hours < 0 \/ dt.offset_minutes < 0 THEN 45 ELSE 43>>
                 \o pad_zero(IF dt.offset_hours < 0 THEN -dt.offset_hours
                             ELSE dt.offset_hours, 2)
                 \o <<58>>
                 \o pad_zero(IF dt.offset_minutes < 0 THEN -dt.offset_minutes
                             ELSE dt.offset_minutes, 2))

\* time::serde::iso8601::option::serialize
iso8601_option_serialize(datetime) ==
    IF datetime = None THEN Ok(JNull) ELSE Ok(JStr(iso8601_format(datetime[1])))

\* patchable_datetime::serialize
patchable_datetime_serialize(datetime) ==
    CASE datetime[1] = "Patched" -> iso8601_option_serialize(datetime[2])
      [] datetime[1] = "Unmodified" -> Err(<<"custom", UnmodifiedMessage>>)

\* 1997-11-21T09:55:06Z and 2023-01-02T03:04:05.000000007-01:30
\* (offsets of whole minutes: the formatter refuses an offset with seconds).
DateTimes ==
    { [year |-> 1997, month |-> 11, day |-> 21, hour |-> 9, minute |-> 55,
       second |-> 6, nanosecond |-> 0, offset_hours |-> 0, offset_minutes |-> 0],
      [year |-> 2023, month |-> 1, day |-> 2, hour |-> 3, minute |-> 4,
       second |-> 5, nanosecond |-> 7, offset_hours |-> -1, offset_minutes |-> -30] }

\* RGB8 values: each component one of 0, 9, 171, 255.
Colors == {<<r, g, b>> : r \in {0, 9, 171, 255}, g \in {0, 9, 171, 255}, b \in {0, 9, 171, 255}}

\* ---------------------------------------------------------------- MemberPrivacyPatch

\* MemberPrivacyPatch::all
MemberPrivacyPatch_all(privacy) ==
    [visibility |-> Patched(privacy), name |-> Patched(privacy),
     description |-> Patched(privacy), birthday |-> Patched(privacy),
     pronouns |-> Patched(privacy), avatar |-> Patched(privacy),
     metadata |-> Patched(privacy)]

PUBLIC == MemberPrivacyPatch_all("Public")
PRIVATE == MemberPrivacyPatch_all("Private")

\* #[derive(Default)]: every field Unmodified.
MemberPrivacyPatch_default ==
    [visibility |-> Unmodified, name |-> Unmodified, description |-> Unmodified,
     birthday |-> Unmodified, pronouns |-> Unmodified, avatar |-> Unmodified,
     metadata |-> Unmodified]

\* One Patchable<Privacy> field of MemberPrivacyPatch, written by Patchable's
\* derived serializer unless skipped.
PrivacyField(key, value) ==
    Field(key, is_unmodified(value),
          Patchable_serialize(value, IF value[1] = "Patched"
                                     THEN Privacy_serialize(value[2]) ELSE Ok(JNull)))

\* MemberPrivacyPatch, derived Serialize.
MemberPrivacyPatch_serialize(self) ==
    Struct_serialize(
        PrivacyField("visibility", self.visibility)
        \o PrivacyField("name", self.name)
        \o PrivacyField("description", self.description)
        \o PrivacyField("birthday", self.birthday)
        \o PrivacyField("pronouns", self.pronouns)
        \o PrivacyField("avatar", self.avatar)
        \o PrivacyField("metadata", self.metadata))

\* Every assignment of Unmodified, Patched(Public), Patched(Private) to the
\* seven fields.
MemberPrivacyPatches ==
    [{"visibility", "name", "description", "birthday", "pronouns", "avatar", "metadata"}
        -> {Unmodified, Patched("Public"), Patched("Private")}]

\* ---------------------------------------------------------------- MemberPatch

\* ProxyTag, derived Serialize: both keys, each an optional string.
ProxyTag_serialize(self) ==
    Ok(JObj(<< <<"prefix", IF self.prefix = None THEN JNull ELSE JStr(self.prefix[1])>>,
               <<"suffix", IF self.suffix = None THEN JNull ELSE JStr(self.suffix[1])>> >>))

\* Vec<ProxyTag>, Serialize: the array of the tags.
ProxyTags_serialize(tags) == Ok(JArr([i \in 1..Len(tags) |-> ProxyTag_serialize(tags[i])[2]]))

\* The Patchable fields of MemberPatch, in declaration order, and the key each
\* is written under (#[serde(rename)] where given).
PatchFields ==
    <<"name", "display_name", "color", "birthday", "pronouns", "avatar",
      "webhook_avatar", "banner", "description", "keep_proxy_tags",
      "text_to_speech", "autoproxy_enabled", "privacy">>

PatchKey(f) ==
    CASE f = "avatar" -> "avatar_url"
      [] f = "webhook_avatar" -> "webhook_avatar_url"
      [] f = "keep_proxy_tags" -> "keep_proxy"
      [] OTHER -> f

\* T's own serializer for the value of field f of MemberPatch, T being the
\* field's type parameter: Patchable<T>.
Inner_serialize(f, v) ==
    CASE f = "name" -> LimitedStr_serialize(v)
      [] f \in {"display_name", "pronouns", "description"} ->
             Option_serialize(v, IF v = None THEN Ok(JNull) ELSE LimitedStr_serialize(v[1]))
      [] f = "color" -> color_serialize(v)
      [] f = "birthday" -> iso8601_option_serialize(v)
      [] f \in {"avatar", "webhook_avatar", "banner"} ->
             Option_serialize(v, IF v = None THEN Ok(JNull) ELSE LimitedUrl_serialize(v[1]))
      [] f \in {"keep_proxy_tags", "text_to_speech"} -> bool_serialize(v)
      [] f = "autoproxy_enabled" ->
             Option_serialize(v, IF v = None THEN Ok(JNull) ELSE bool_serialize(v[1]))
      [] f = "privacy" -> MemberPrivacyPatch_serialize(v)

\* One Patchable field of MemberPatch without `with`: skipped when unmodified,
\* else written by Patchable's derived serializer.
PatchField(f, value) ==
    Field(PatchKey(f), is_unmodified(value),
          Patchable_serialize(value, IF value[1] = "Patched"
                                     THEN Inner_serialize(f, value[2]) ELSE Ok(JNull)))

\* MemberPatch, derived Serialize: the fields in declaration order; color and
\* birthday go through their `with` modules, proxy_tags is always written.
MemberPatch_serialize(self) ==
    Struct_serialize(
        PatchField("name", self.name)
        \o PatchField("display_name", self.display_name)
        \o Field("color", is_unmodified(self.color), patchable_color_serialize(self.color))
        \o Field("birthday", is_unmodified(self.birthday),
                 patchable_datetime_serialize(self.birthday))
        \o PatchField("pronouns", self.pronouns)
        \o PatchField("avatar", self.avatar)
        \o PatchField("webhook_avatar", self.webhook_avatar)
        \o PatchField("banner", self.banner)
        \o PatchField("description", self.description)
        \o Field("proxy_tags", FALSE, ProxyTags_serialize(self.proxy_tags))
        \o PatchField("keep_proxy_tags", self.keep_proxy_tags)
        \o PatchField("text_to_speech", self.text_to_speech)
        \o PatchField("autoproxy_enabled", self.autoproxy_enabled)
        \o PatchField("privacy", self.privacy))

\* "http://a/"
UrlA == Url_parse(<<104, 116, 116, 112, 58, 47, 47, 97>>)[2]

\* Two values for each field of a patch: the first clears an optional field
\* (or is false, or the empty privacy patch), the second sets it.
PatchValue(f, k) ==
    CASE f = "name" ->
             IF k = 1 THEN LimitedStr_try_from(100, <<97>>)[2]
             ELSE LimitedStr_try_from(100, <<233, 33>>)[2]
      [] f \in {"display_name", "pronouns"} ->
             IF k = 1 THEN None ELSE Some(LimitedStr_try_from(100, <<97>>)[2])
      [] f = "description" ->
             IF k = 1 THEN None ELSE Some(LimitedStr_try_from(1000, StrHello)[2])
      [] f = "color" -> IF k = 1 THEN None ELSE Some(<<255, 0, 0>>)
      [] f = "birthday" ->
             IF k = 1 THEN None ELSE Some(CHOOSE d \in DateTimes : d.year = 1997)
      [] f \in {"avatar", "webhook_avatar", "banner"} ->
             IF k = 1 THEN None ELSE Some(LimitedUrl_from(256, UrlA))
      [] f \in {"keep_proxy_tags", "text_to_speech"} -> k # 1
      [] f = "autoproxy_enabled" -> IF k = 1 THEN None ELSE Some(TRUE)
      [] f = "privacy" -> IF k = 1 THEN MemberPrivacyPatch_default ELSE PRIVATE
      [] f = "proxy_tags" ->
             IF k = 1 THEN <<>> ELSE <<ProxyTag_new(Some(<<97>>), None)[2]>>

PatchFieldSet == {PatchFields[i] : i \in 1..Len(PatchFields)}

\* The patches: every choice of the fields that are Patched, with the first or
\* the second value in each.
MemberPatches ==
    { [f \in PatchFieldSet \cup {"proxy_tags"} |->
          IF f = "proxy_tags" THEN PatchValue(f, k)
          ELSE IF f \in S THEN Patched(PatchValue(f, k)) ELSE Unmodified] :
      S \in SUBSET PatchFieldSet, k \in {1, 2} }

\* ---------------------------------------------------------------- serde calls

\* Hexadecimal texts: 'f', '0' and the non-digit 'g', and "FF0000", U+00E9.
ColorTexts ==
    StringsUpTo({102, 48, 103}, MaxHexChars) \cup {<<70, 70, 48, 48, 48, 48>>, <<233>>}

SerdeInit ==
    /\ \/ call \in {<<"MemberPatch::serialize", p>> : p \in MemberPatches}
       \/ call \in {<<"MemberPrivacyPatch::serialize", p>> : p \in MemberPrivacyPatches}
       \/ call \in {<<"patchable_color::serialize", p>> :
                        p \in {Unmodified, Patched(None)} \cup {Patched(Some(c)) : c \in Colors}}
       \/ call \in {<<"patchable_datetime::serialize", p>> :
                        p \in {Unmodified, Patched(None)} \cup {Patched(Some(d)) : d \in DateTimes}}
       \/ call \in {<<"color::deserialize", j, lends>> :
                        j \in {JNull, JBool(TRUE)} \cup {JStr(s) : s \in ColorTexts},
                        lends \in BOOLEAN}
    /\ ret = Pending
    /\ text = NoText

MemberPatchSerialize ==
    /\ call[1] = "MemberPatch::serialize"
    /\ ret = Pending
    /\ ret' = MemberPatch_serialize(call[2])
    /\ UNCHANGED <<call, text>>

MemberPrivacyPatchSerialize ==
    /\ call[1] = "MemberPrivacyPatch::serialize"
    /\ ret = Pending
    /\ ret' = MemberPrivacyPatch_serialize(call[2])
    /\ UNCHANGED <<call, text>>

PatchableColorSerialize ==
    /\ call[1] = "patchable_color::serialize"
    /\ ret = Pending
    /\ ret' = patchable_color_serialize(call[2])
    /\ UNCHANGED <<call, text>>

PatchableDatetimeSerialize ==
    /\ call[1] = "patchable_datetime::serialize"
    /\ ret = Pending
    /\ ret' = patchable_datetime_serialize(call[2])
    /\ UNCHANGED <<call, text>>

ColorDeserialize ==
    /\ call[1] = "color::deserialize"
    /\ ret = Pending
    /\ ret' = color_deserialize(call[2], call[3])
    /\ UNCHANGED <<call, text>>

\* ---------------------------------------------------------------- specification

Init ==
    \/ LimitedStrInit
    \/ ShortIdInit
    \/ ProxyTagInit
    \/ LimitedUrlInit
    \/ SerdeInit

Next ==
    \/ LimitedStrTryFrom
    \/ LimitedStrDeref
    \/ ShortIdTryFrom
    \/ ShortIdToString
    \/ ProxyTagNew
    \/ LimitedUrlTryFrom
    \/ LimitedUrlFrom
    \/ LimitedUrlNewUnchecked
    \/ LimitedUrlDeserialize
    \/ MemberPatchSerialize
    \/ MemberPrivacyPatchSerialize
    \/ PatchableColorSerialize
    \/ PatchableDatetimeSerialize
    \/ ColorDeserialize

Spec == Init /\ [][Next]_vars

\* ---------------------------------------------------------------- claims

\* C1: LimitedStr<L>::try_from(s) returns Ok(v) with deref(v) = s when the
\* length of s (in bytes, str::len) is at most L, and
\* Err(ExceededLimitError(s, L)) when it is greater.
C1_LimitedStrContract ==
    (call[1] = "LimitedStr::try_from" /\ ret # Pending) =>
        LET L == call[2]
            s == call[3]
        IN  /\ str_len(s) <= L =>
                /\ IsOk(ret)
                /\ text # NoText => text[2] = s
            /\ str_len(s) > L =>
                /\ IsErr(ret)
                /\ ret[2] = <<"ExceededLimitError", s, L>>

\* C1 witness: "hello!" against L = 5 has been refused with ("hello!", 5).
C1_Witness ==
    /\ call = <<"LimitedStr::try_from", 5, StrHelloBang>>
    /\ ret = Err(<<"ExceededLimitError", StrHelloBang, 5>>)

\* C2 (as stated): a string whose length is not 5 fails with IncorrectLength,
\* and a 5-character string holding a character outside a-z fails with
\* InvalidCharacters.
C2_ShortIdErrors ==
    (call[1] = "ShortId::try_from" /\ ret # Pending) =>
        LET s == call[2]
        IN  /\ str_len(s) # 5 => ret = Err("IncorrectLength")
            /\ (Len(s) = 5 /\ \E i \in 1..5 : ~is_ascii_lowercase(s[i]))
                   => ret = Err("InvalidCharacters")

\* C3: for every string s of exactly 5 lowercase ASCII letters,
\* ShortId::try_from(s) succeeds, to_string of the result is s, and parsing
\* that text again gives an equal ShortId.
C3_ShortIdRoundTrip ==
    (call[1] = "ShortId::try_from" /\ ret # Pending) =>
        LET s == call[2]
        IN  (Len(s) = 5 /\ \A i \in 1..5 : is_ascii_lowercase(s[i])) =>
                /\ IsOk(ret)
                /\ text # NoText =>
                      /\ text[2] = s
                      /\ ShortId_try_from(text[2]) = ret

\* C3 witness: "ptckn" was parsed and rendered back.
C3_Witness ==
    /\ call = <<"ShortId::try_from", StrPtckn>>
    /\ IsOk(ret)
    /\ text = <<"Text", StrPtckn>>

\* C4: ProxyTag::new fails with ProxyTagExceededLimitError if and only if the
\* lengths of prefix and suffix (None counting 0) sum to more than 100, and
\* otherwise succeeds with exactly the prefix and suffix passed in.
C4_ProxyTagSumLimit ==
    (call[1] = "ProxyTag::new" /\ ret # Pending) =>
        LET prefix == call[2]
            suffix == call[3]
            total == (IF prefix = None THEN 0 ELSE str_len(prefix[1]))
                     + (IF suffix = None THEN 0 ELSE str_len(suffix[1]))
        IN  /\ (ret = Err("ProxyTagExceededLimitError")) <=> (total > 100)
            /\ total <= 100 => ret = Ok([prefix |-> prefix, suffix |-> suffix])

\* C4 witness: each fragment is within 100 bytes, the pair is not, and the
\* construction has failed.
C4_Witness ==
    /\ call[1] = "ProxyTag::new"
    /\ call[2] # None /\ str_len(call[2][1]) <= 100 /\ str_len(call[2][1]) > 0
    /\ call[3] # None /\ str_len(call[3][1]) <= 100
    /\ ret = Err("ProxyTagExceededLimitError")

\* C7: LimitedUrl<L>::try_from(s) checks the length of the raw text first: a
\* text longer than L gives ExceededLimitError(s, L) whether or not it is a
\* URL, a text within L that is no URL gives ParseError, and a text within L
\* that is a URL gives Ok with the parsed URL.
C7_LimitedUrlOrder ==
    (call[1] = "LimitedUrl::try_from" /\ ret # Pending) =>
        LET L == call[2]
            s == call[3]
            parsed == Url_parse(s)
        IN  /\ str_len(s) > L => ret = Err(<<"ExceededLimitError", s, L>>)
            /\ (str_len(s) <= L /\ IsErr(parsed)) =>
                   (IsErr(ret) /\ ret[2][1] = "ParseError")
            /\ (str_len(s) <= L /\ IsOk(parsed)) => ret = Ok(parsed[2])

\* C7 witness: a text that is too long and is no URL got the length error.
C7_Witness ==
    /\ call[1] = "LimitedUrl::try_from"
    /\ IsErr(Url_parse(call[3]))
    /\ str_len(call[3]) > call[2]
    /\ IsErr(ret) /\ ret[2][1] = "ExceededLimitError"

\* C10 (as stated): every LimitedUrl<L> obtained through TryFrom<&str>,
\* From<Url> or deserialization holds a URL whose text is at most L long.
C10_LimitedUrlBound ==
    (call[1] \in {"LimitedUrl::try_from", "LimitedUrl::from", "LimitedUrl::deserialize"}
     /\ IsOk(ret)) => str_len(ret[2]) <= call[2]

\* The fields of the patch p of record type with field names F that are
\* Patched.
PatchedIn(p, F) == {f \in F : p[f][1] = "Patched"}

\* C5: in the serialized MemberPatch and MemberPrivacyPatch a Patchable
\* field's key is present if and only if the field is Patched; an Unmodified
\* field adds no entry at all (no key, no null); proxy_tags is always written.
C5_KeyIffPatched ==
    /\ (call[1] = "MemberPatch::serialize" /\ ret # Pending) =>
           /\ IsOk(ret)
           /\ \A f \in PatchFieldSet :
                  HasKey(ret[2], PatchKey(f)) <=> (call[2][f][1] = "Patched")
           /\ HasKey(ret[2], "proxy_tags")
           /\ Len(ret[2][2]) = Cardinality(PatchedIn(call[2], PatchFieldSet)) + 1
    /\ (call[1] = "MemberPrivacyPatch::serialize" /\ ret # Pending) =>
           /\ IsOk(ret)
           /\ \A f \in DOMAIN call[2] : HasKey(ret[2], f) <=> (call[2][f][1] = "Patched")
           /\ Len(ret[2][2]) = Cardinality(PatchedIn(call[2], DOMAIN call[2]))

\* C5 witness: a patch with name Patched and color and privacy Unmodified was
\* serialized; name is in the output, color and privacy are not.
C5_Witness ==
    /\ call[1] = "MemberPatch::serialize"
    /\ call[2].name[1] = "Patched"
    /\ call[2].color = Unmodified
    /\ call[2].privacy = Unmodified
    /\ IsOk(ret)
    /\ HasKey(ret[2], "name")
    /\ ~HasKey(ret[2], "color")
    /\ ~HasKey(ret[2], "privacy")

\* C6 (as stated): for every Patched field of a patch structure, the value
\* written under the field's key is the contained value as T itself writes it
\* (null for Patched(None), v's encoding for Patched(Some(v)) and Patched(v)),
\* for the fields with an adapter and for the fields written by Patchable's
\* derived serializer alike; the PRIVATE preset writes the private value for
\* all seven fields.
C6_PatchedValueIsOwnEncoding ==
    /\ (call[1] = "MemberPatch::serialize" /\ IsOk(ret)) =>
           \A f \in PatchedIn(call[2], PatchFieldSet) :
               /\ HasKey(ret[2], PatchKey(f))
               /\ JGet(ret[2], PatchKey(f)) = Inner_serialize(f, call[2][f][2])[2]
    /\ (call[1] = "MemberPrivacyPatch::serialize" /\ IsOk(ret)) =>
           \A f \in PatchedIn(call[2], DOMAIN call[2]) :
               /\ HasKey(ret[2], f)
               /\ JGet(ret[2], f) = Privacy_serialize(call[2][f][2])[2]

\* "ff0000" and "+001997-11-21T09:55:06.000000000Z"
StrFf0000 == <<102, 102, 48, 48, 48, 48>>
Str1997 ==
    <<43, 48, 48, 49, 57, 57, 55, 45, 49, 49, 45, 50, 49, 84, 48, 57, 58, 53, 53,
      58, 48, 54, 46, 48, 48, 48, 48, 48, 48, 48, 48, 48, 90>>

\* C8, second half: called on a Patched value, the color adapter writes None
\* as null and a color as its six hexadecimal digits (RGB(255,0,0) as
\* "ff0000"), and the date/time adapter writes None as null and a date as its
\* ISO 8601 text.
C8_PatchedEmits ==
    /\ (call[1] = "patchable_color::serialize" /\ ret # Pending
        /\ call[2][1] = "Patched") =>
           /\ IsOk(ret)
           /\ call[2][2] = None => ret[2] = JNull
           /\ call[2][2] # None =>
                  /\ ret[2][1] = "str"
                  /\ Len(ret[2][2]) = 6
                  /\ hex_decode(ret[2][2]) = Ok(call[2][2][1])
                  /\ \A i \in 1..6 : ret[2][2][i] \notin 65..70
           /\ call[2][2] = Some(<<255, 0, 0>>) => ret[2] = JStr(StrFf0000)
    /\ (call[1] = "patchable_datetime::serialize" /\ ret # Pending
        /\ call[2][1] = "Patched") =>
           /\ IsOk(ret)
           /\ call[2][2] = None => ret[2] = JNull
           /\ call[2][2] # None =>
                  /\ ret[2][1] = "str"
                  /\ ret[2][2] = iso8601_format(call[2][2][1])
           /\ (call[2][2] # None /\ call[2][2][1].year = 1997) => ret[2] = JStr(Str1997)

\* C8 (as stated): called on an Unmodified value, either adapter fails as a
\* defect, not with an error value returned to the caller, and writes nothing;
\* on a Patched value it writes the inner value through its codec.
C8_UnmodifiedPanics ==
    /\ (call[1] \in {"patchable_color::serialize", "patchable_datetime::serialize"}
        /\ ret # Pending /\ call[2] = Unmodified) => IsPanic(ret)
    /\ C8_PatchedEmits

\* The adapters as they are: called on an Unmodified value, either returns the
\* error value custom("unmodified patchable should not be serialized") to its
\* caller.
UnmodifiedReturnsError ==
    (call[1] \in {"patchable_color::serialize", "patchable_datetime::serialize"}
     /\ ret # Pending /\ call[2] = Unmodified) =>
        ret = Err(<<"custom", UnmodifiedMessage>>)

\* C9 (as stated): color::deserialize never panics; it returns Ok(None),
\* Ok(Some(rgb)) for a text that decodes to exactly 3 bytes, or an error.
C9_ColorDeserializeNeverPanics ==
    (call[1] = "color::deserialize" /\ ret # Pending) =>
        /\ ~IsPanic(ret)
        /\ (IsOk(ret) /\ ret[2] # None) => str_len(call[2][2]) = 6

====
